---- MODULE Spec2Model ----
(***************************************************************************)
(* asyncio-cache: the cache backends (NoCache, DictCache, SqliteCache),    *)
(* the TestClock, and the memoizing decorator `cached` with its pending    *)
(* table `ongoing`.                                                        *)
(*                                                                         *)
(* The specifications share the cache state:                               *)
(*   SpecCache  the backend operations called directly on one cache;       *)
(*   Spec       one memoized function over one cache, called by            *)
(*              concurrent coroutines on one asyncio event loop;           *)
(*   FairSpec   Spec with the event loop's scheduling of ready handles;    *)
(*   FairSpecOtherKeys  Spec where every key but one makes progress;       *)
(*   SpecAnyTtl Spec for every ttl argument cached() can be given;         *)
(*   SpecSqlite one SqliteCache used by concurrent coroutines, at the      *)
(*              grain of its awaits (lock, connection, statements).        *)
(***************************************************************************)
EXTENDS Integers, Sequences, FiniteSets, TLC

\* ------------------------------------------------------------------ bounds
NumCallers == 2     \* concurrent coroutines calling the memoized function
MaxTasks == 2       \* computations (asyncio tasks) created in one run
MaxOps == 3         \* wrapper / invalidate calls made in one run
MaxNow == 2         \* TestClock.t never advances past this
MaxTtl == 2         \* largest ttl given to put
MaxVal == 2         \* values put directly into a cache

\* --------------------------------------------------------------- encodings
\* Python None as a ttl / an expires_at.
NoTtl == -1
\* The arguments the memoized function is called with: f(5), f(6).
Args == {5, 6}
\* The keys the cache is used with directly: b"foo", b"baz".
CacheKeys == {"foo", "baz"}
Callers == 1..NumCallers

\* key.py ReprKeyMaker.__call__: "<module>:<qualname>(<repr args>)", a
\* receiver named self/cls is dropped from the arguments first.
ReprKeyMaker(fn, is_method, args) ==
    LET a == IF is_method THEN Tail(args) ELSE args IN <<fn, a>>

\* The key of cached_func(x): a plain function of one argument.
KeyOf(x) == ReprKeyMaker("cached_func", FALSE, <<x>>)
Keys == {KeyOf(x) : x \in Args}

\* What a call gives back: a value, Python None, or a raised exception.
Value(v) == [kind |-> "value", v |-> v]
PyNone == [kind |-> "none", v |-> 0]
KeyError == [kind |-> "KeyError", v |-> 0]
Raised(n) == [kind |-> "exc", v |-> n]

\* A stored entry (value, expires_at); Absent: the key is not in the store.
Entry(v, e) == [value |-> v, expires_at |-> e]
Absent == [value |-> 0, expires_at |-> -2]
IsAbsent(e) == e.expires_at = -2

\* serializer.py: the blob SqliteCache stores, and its decoding.  A blob is
\* not the value: blobs are the numbers above 100, values the ones below.
Encode(v) == v + 100
Decode(b) == b - 100

\* An expiry test with an exclusive boundary.
NotExpiredStrict(e, t) == e.expires_at = NoTtl \/ e.expires_at > t
\* cache.py: `expires_at is None or expires_at >= now`.
NotExpired(e, t) == e.expires_at = NoTtl \/ e.expires_at >= t

\* cache.py: `ttl + now if ttl is not None else None`.
ExpiresAt(ttl, t) == IF ttl # NoTtl THEN ttl + t ELSE NoTtl

\* ------------------------------------------------------------- NoCache
NoCacheGet(d, k, t) == KeyError
NoCachePut(d, k, v, ttl, t) == d
NoCacheRemove(d, k) == [data |-> d, out |-> PyNone]
NoCacheRemoveExpired(d, t) == d
NoCacheData(d, t) == {}

\* ------------------------------------------------------------- DictCache
\* get: self._data[key] raises KeyError when the key is absent; a present
\* entry is returned when not expired; otherwise the function falls off its
\* end and returns None.
DictCacheGet(d, k, t) ==
    IF IsAbsent(d[k]) THEN KeyError
    ELSE IF NotExpired(d[k], t) THEN Value(d[k].value)
    ELSE PyNone

\* A put that merges: the entry it overwrites keeps its expires_at.
DictCachePutKeepsOldTtl(d, k, v, ttl, t) ==
    [d EXCEPT ![k] = Entry(v, IF IsAbsent(d[k]) THEN ExpiresAt(ttl, t)
                              ELSE d[k].expires_at)]
\* put: self._data[key] = (value, expires_at)
DictCachePut(d, k, v, ttl, t) == [d EXCEPT ![k] = Entry(v, ExpiresAt(ttl, t))]

\* remove: `del self._data[key]` raises KeyError when the key is absent.
DictCacheRemove(d, k) ==
    IF IsAbsent(d[k]) THEN [data |-> d, out |-> KeyError]
    ELSE [data |-> [d EXCEPT ![k] = Absent], out |-> PyNone]

\* A sweep that takes an entry without expiry for an expired one.
DictCacheRemoveExpiredDropsNone(d, t) ==
    [k \in DOMAIN d |-> IF ~IsAbsent(d[k]) /\ d[k].expires_at # NoTtl
                               /\ d[k].expires_at >= t
                         THEN d[k] ELSE Absent]
\* remove_expired: keep the entries with `expires_at is None or
\* expires_at >= now`.
DictCacheRemoveExpired(d, t) ==
    [k \in DOMAIN d |-> IF ~IsAbsent(d[k]) /\ NotExpired(d[k], t) THEN d[k] ELSE Absent]

DictCacheData(d, t) ==
    {<<k, d[k].value>> : k \in {x \in DOMAIN d : ~IsAbsent(d[x]) /\ NotExpired(d[x], t)}}

\* ------------------------------------------------------------- SqliteCache
\* Every operation runs inside `async with self.db_lock`, so the operations
\* of one instance are serialized; each is modelled at the point where it
\* holds the lock and reads the clock.  Rows hold the encoded value.
SqliteCacheGet(d, k, t) ==
    IF ~IsAbsent(d[k]) /\ NotExpired(d[k], t) THEN Value(Decode(d[k].value))
    ELSE KeyError

SqliteCachePut(d, k, v, ttl, t) ==
    [d EXCEPT ![k] = Entry(Encode(v), ExpiresAt(ttl, t))]

SqliteCacheRemove(d, k) == [data |-> [d EXCEPT ![k] = Absent], out |-> PyNone]

\* DELETE FROM cache WHERE expires_at < now  (a NULL expires_at never matches)
SqliteCacheRemoveExpired(d, t) ==
    [k \in DOMAIN d |-> IF ~IsAbsent(d[k]) /\ NotExpired(d[k], t) THEN d[k] ELSE Absent]

SqliteCacheData(d, t) ==
    {<<k, Decode(d[k].value)>> :
        k \in {x \in DOMAIN d : ~IsAbsent(d[x]) /\ NotExpired(d[x], t)}}

\* ---------------------------------------------------- the Cache interface
Backends == {"NoCache", "DictCache", "SqliteCache"}

Get(b, d, k, t) ==
    CASE b = "NoCache" -> NoCacheGet(d, k, t)
      [] b = "DictCache" -> DictCacheGet(d, k, t)
      [] b = "SqliteCache" -> SqliteCacheGet(d, k, t)

Put(b, d, k, v, ttl, t) ==
    CASE b = "NoCache" -> NoCachePut(d, k, v, ttl, t)
      [] b = "DictCache" -> DictCachePut(d, k, v, ttl, t)
      [] b = "SqliteCache" -> SqliteCachePut(d, k, v, ttl, t)

Remove(b, d, k) ==
    CASE b = "NoCache" -> NoCacheRemove(d, k)
      [] b = "DictCache" -> DictCacheRemove(d, k)
      [] b = "SqliteCache" -> SqliteCacheRemove(d, k)

RemoveExpired(b, d, t) ==
    CASE b = "NoCache" -> NoCacheRemoveExpired(d, t)
      [] b = "DictCache" -> DictCacheRemoveExpired(d, t)
      [] b = "SqliteCache" -> SqliteCacheRemoveExpired(d, t)

Data(b, d, t) ==
    CASE b = "NoCache" -> NoCacheData(d, t)
      [] b = "DictCache" -> DictCacheData(d, t)
      [] b = "SqliteCache" -> SqliteCacheData(d, t)

\* Cache.getOrDefault: get, with KeyError turned into the default.
GetOrDefault(b, d, k, dflt, t) ==
    LET r == Get(b, d, k, t) IN IF r = KeyError THEN dflt ELSE r

\* Whether the backend's operations suspend the calling coroutine (they
\* await the lock and the database); NoCache and DictCache never await.
Suspends(b) == b = "SqliteCache"

\* --------------------------------------------------------------- state
VARIABLES
    backend,    \* which Cache class the cache object is
    data,       \* DictCache._data / the rows of SqliteCache's table
    now,        \* TestClock.t
    res,        \* SpecCache: the last direct operation and what it gave
    lastPut,    \* SpecCache: per key, the last put not followed by a remove
    ttlcfg,     \* cached(ttl=...)
    ongoing,    \* cached: the pending table, key -> task (0: no entry)
    tasks,      \* the get_or_compute tasks created so far
    execLog,    \* the executions of the wrapped function, in order: the
                \* task that made each and how it ended
    cpc,        \* per caller: idle, awaiting (a task), invalidating
    call,       \* per caller: its current or last wrapper/invalidate call
    nops,       \* wrapper and invalidate calls made so far
    invalSerial, \* per key: the last execution that had ended when
                \* invalidate last returned; -1 once a later call with the
                \* key was made
    filename,   \* SqliteCache.filename
    db,         \* SqliteCache.db: the connection (conn = 0: None) and what
                \* has been done on it since it was opened
    db_lock,    \* SqliteCache.db_lock: the coroutines that hold or wait for
                \* it, in arrival order
    co,         \* SpecSqlite: per coroutine, the operation it is in
    nconn,      \* aiosqlite.connect calls made so far
    opened      \* connections opened and not closed

cacheVars == <<backend, data, now>>
directVars == <<res, lastPut>>
memoVars == <<ttlcfg, ongoing, tasks, execLog, cpc, call, nops, invalSerial>>
sqliteVars == <<filename, db, db_lock, co, nconn, opened>>
vars == <<backend, data, now, res, lastPut, ttlcfg, ongoing, tasks, execLog,
          cpc, call, nops, invalSerial, filename, db, db_lock, co, nconn, opened>>

Ttls == {NoTtl} \cup 1..MaxTtl
Values == 1..MaxVal

NoPut == [value |-> 0, ttl |-> -2, at |-> 0]
NoRes == [op |-> "none", key |-> "foo", arg |-> PyNone, out |-> PyNone, at |-> 0,
          entry |-> Absent, snap |-> {}]
Pending == [kind |-> "pending", v |-> 0]
NoCall == [op |-> "none", key |-> KeyOf(5), task |-> 0, out |-> Pending,
           thr |-> -1, inflight |-> FALSE]

\* ---------------------------------------------------------- TTL policy
\* decorator.py _parse_ttl_function: the configurations it accepts.  A
\* configuration is none, a constant, a pair (min, max) or a function.
TtlNone == [kind |-> "none", lo |-> NoTtl, hi |-> NoTtl]
TtlConst(v) == [kind |-> "const", lo |-> v, hi |-> v]
TtlRange(lo, hi) == [kind |-> "range", lo |-> lo, hi |-> hi]
TtlFunc == [kind |-> "func", lo |-> NoTtl, hi |-> NoTtl]

\* Whether _parse_ttl_function returns a policy (TRUE) or raises ValueError:
\* a function is no None, number, timedelta or tuple, so it reaches the
\* final else; a range with a None end is rejected.
ParseTtlOk(cfg) ==
    CASE cfg.kind = "none" -> TRUE
      [] cfg.kind = "const" -> TRUE
      [] cfg.kind = "range" -> cfg.lo # NoTtl /\ cfg.hi # NoTtl
      [] OTHER -> FALSE

\* The values the policy can return for one computed result
\* (random.uniform(min, max) over the whole-second durations).
TtlPolicy(cfg) ==
    CASE cfg.kind = "none" -> {NoTtl}
      [] cfg.kind = "const" -> {cfg.lo}
      [] cfg.kind = "range" -> cfg.lo..cfg.hi
      [] OTHER -> {}

TtlConfigs == {TtlNone, TtlConst(1), TtlRange(1, MaxTtl), TtlFunc}

\* ---------------------------------------------------- SqliteCache state
\* self.db = None: no connection, nothing done on it.
NoDb == [conn |-> 0, table |-> FALSE, index |-> FALSE, swept |-> FALSE,
         committed |-> FALSE]
\* A coroutine that is in no SqliteCache operation.
\*   pc      idle, waiting (for db_lock), connecting, create_table,
\*           create_index, sweep, setup_commit, query, commit, closing
\*   now     the clock as the operation read it;  snow  as the sweep of
\*           _ensure_connected read it
\*   failed  __aexit__: whether the scoped body raised
\*   waited  whether the operation had to wait for the lock
IdleCo == [op |-> "none", pc |-> "idle", key |-> "foo", value |-> 0,
           ttl |-> NoTtl, now |-> 0, snow |-> 0, failed |-> FALSE,
           waited |-> FALSE, out |-> Pending]

\* SqliteCache.__init__: no connection, a free lock.
InitSqliteVars ==
    /\ db = NoDb
    /\ db_lock = <<>>
    /\ co = [c \in Callers |-> IdleCo]
    /\ nconn = 0
    /\ opened = 0

\* ------------------------------------------------------------ SpecCache
InitMemo ==
    /\ ongoing = [k \in Keys |-> 0]
    /\ tasks = <<>>
    /\ execLog = <<>>
    /\ cpc = [c \in Callers |-> "idle"]
    /\ call = [c \in Callers |-> NoCall]
    /\ nops = 0
    /\ invalSerial = [k \in Keys |-> -1]

\* A cache of one of the three classes, just constructed, with a TestClock;
\* no memoized function uses it.
InitCache ==
    /\ backend \in Backends
    /\ data = [k \in CacheKeys |-> Absent]
    /\ now = 0
    /\ res = NoRes
    /\ lastPut = [k \in CacheKeys |-> NoPut]
    /\ ttlcfg = TtlNone
    /\ InitMemo
    /\ filename = ":memory:"
    /\ InitSqliteVars

\* What a direct operation leaves to look at: its name, key and default
\* argument, its outcome, the clock time and the key's entry when it was
\* called, and the snapshot data() returned.
Result(op, k, out, snap) ==
    [op |-> op, key |-> k, arg |-> PyNone, out |-> out, at |-> now,
     entry |-> data[k], snap |-> snap]

\* await cache.put(key, value, ttl)
CachePut(k, v, ttl) ==
    /\ data' = Put(backend, data, k, v, ttl, now)
    /\ res' = Result("put", k, PyNone, {})
    /\ lastPut' = [lastPut EXCEPT ![k] = [value |-> v, ttl |-> ttl, at |-> now]]
    /\ UNCHANGED <<sqliteVars, backend, now, memoVars>>

\* await cache.get(key)
CacheGet(k) ==
    /\ res' = Result("get", k, Get(backend, data, k, now), {})
    /\ UNCHANGED <<sqliteVars, cacheVars, lastPut, memoVars>>

\* await cache.getOrDefault(key, default)
CacheGetOrDefault(k, dflt) ==
    /\ res' = [Result("getOrDefault", k, GetOrDefault(backend, data, k, dflt, now), {})
                 EXCEPT !.arg = dflt]
    /\ UNCHANGED <<sqliteVars, cacheVars, lastPut, memoVars>>

\* await cache.remove(key)
CacheRemove(k) ==
    /\ data' = Remove(backend, data, k).data
    /\ res' = Result("remove", k, Remove(backend, data, k).out, {})
    /\ lastPut' = [lastPut EXCEPT ![k] = NoPut]
    /\ UNCHANGED <<sqliteVars, backend, now, memoVars>>

\* await cache.remove_expired()
CacheRemoveExpired ==
    /\ data' = RemoveExpired(backend, data, now)
    /\ res' = Result("remove_expired", "foo", PyNone, {})
    /\ UNCHANGED <<sqliteVars, backend, now, lastPut, memoVars>>

\* await cache.data()
CacheData ==
    /\ res' = Result("data", "foo", PyNone, Data(backend, data, now))
    /\ UNCHANGED <<sqliteVars, cacheVars, lastPut, memoVars>>

\* await cache.clock.sleep(n): TestClock adds n to t.
ClockSleep(n) ==
    /\ now + n <= MaxNow
    /\ now' = now + n
    /\ res' = Result("sleep", "foo", PyNone, {})
    /\ UNCHANGED <<sqliteVars, backend, data, lastPut, memoVars>>

NextCache ==
    \/ \E k \in CacheKeys, v \in Values, ttl \in Ttls : CachePut(k, v, ttl)
    \/ \E k \in CacheKeys : CacheGet(k)
    \/ \E k \in CacheKeys, dflt \in {PyNone, Value(MaxVal)} : CacheGetOrDefault(k, dflt)
    \/ \E k \in CacheKeys : CacheRemove(k)
    \/ CacheRemoveExpired
    \/ CacheData
    \/ \E n \in 1..MaxNow : ClockSleep(n)

SpecCache == InitCache /\ [][NextCache]_vars

\* ----------------------------------------------------------------- Spec
\* The memoized function: cached(cache, key_maker, ttl)(cached_func).

\* A cache of one of the three classes with a TestClock, and a decorator
\* whose ttl argument _parse_ttl_function accepted.
Init ==
    /\ backend \in Backends
    /\ data = [k \in Keys |-> Absent]
    /\ now = 0
    /\ res = NoRes
    /\ lastPut = [k \in CacheKeys |-> NoPut]
    /\ ttlcfg \in {c \in TtlConfigs : ParseTtlOk(c)}
    /\ InitMemo
    /\ filename = ":memory:"
    /\ InitSqliteVars

\* asyncio.create_task(get_or_compute()): a task that has not run yet.
\*   pc      created, get_ret (cache.get answered, not yet resumed), in_fn
\*           (inside the wrapped function), putting (cache.put called),
\*           put_ret (cache.put done, not yet resumed), finished
\*   got     what cache.get gave;  ttl  what the TTL policy gave (-2: not
\*           evaluated);  result  the task's result or exception
\*   cb      whether the done callback (ongoing.pop) has run
NewTask(k) ==
    [key |-> k, pc |-> "created", got |-> Pending, ttl |-> -2,
     result |-> Pending, cb |-> FALSE]

TaskIds == 1..Len(tasks)
Done(t) == tasks[t].pc = "finished"
\* The executions of the wrapped function made by task t; execution number
\* n returns the n-th new object, written n.
ExecsOf(t) == {i \in 1..Len(execLog) : execLog[i].task = t}
ExecOf(t) == CHOOSE i \in 1..Len(execLog) : execLog[i].task = t
\* `await fn(*args, **kwargs)` is entered by task t.
Invoke(log, t) == Append(log, [task |-> t, out |-> "running"])

\* A lookup that never finds the registered computation.
LookupFindsNothing(tbl, k) == 0
\* pending = ongoing.get(key, None)
Lookup(tbl, k) == tbl[k]
\* ongoing[key] = pending
Register(tbl, k, t) == [tbl EXCEPT ![k] = t]
\* A cleanup that runs only when the computation returned a value.
DoneCallbackOnSuccessOnly(tbl, x) ==
    IF x.result.kind = "exc" THEN tbl ELSE [tbl EXCEPT ![x.key] = 0]
\* pending.add_done_callback(lambda x: ongoing.pop(key)); x is the task.
DoneCallbackTable(tbl, x) == [tbl EXCEPT ![x.key] = 0]

\* A lock that is kept while the registered computation runs (`return
\* await pending` inside the `async with` block).
InsideLockWhileComputing(ts) == {t \in 1..Len(ts) : ts[t].pc # "finished"}
\* `async with ongoing_lock`: the computations whose caller is suspended
\* inside the block.  The block (lookup, create_task, registration,
\* add_done_callback) holds no await, so no coroutine is ever suspended in
\* it and the lock is free whenever another coroutine runs.
InsideLock(ts) == {}

NewCall(op, k, t, thr, inflight) ==
    [op |-> op, key |-> k, task |-> t, out |-> Pending, thr |-> thr,
     inflight |-> inflight]

\* wrapper(x), up to `return await pending`.  The lock is free whenever a
\* coroutine reaches it (nothing awaits inside it), so lookup and
\* registration are one step.  Awaiting a task that is already done returns
\* at once; otherwise the caller is suspended.
Call(c, x) ==
    LET k == KeyOf(x)
        pending == Lookup(ongoing, k)
        new == Len(tasks) + 1
        t == IF pending = 0 THEN new ELSE pending
        rec == NewCall("call", k, t, invalSerial[k], FALSE)
    IN
    /\ cpc[c] = "idle"
    /\ InsideLock(tasks) = {}
    /\ nops < MaxOps
    /\ nops' = nops + 1
    /\ invalSerial' = [invalSerial EXCEPT ![k] = -1]
    /\ IF pending = 0
       THEN /\ Len(tasks) < MaxTasks
            /\ tasks' = Append(tasks, NewTask(k))
            /\ ongoing' = Register(ongoing, k, new)
            /\ cpc' = [cpc EXCEPT ![c] = "awaiting"]
            /\ call' = [call EXCEPT ![c] = rec]
       ELSE /\ UNCHANGED <<tasks, ongoing>>
            /\ IF Done(pending)
               THEN /\ call' = [call EXCEPT ![c] =
                                  [rec EXCEPT !.out = tasks[pending].result]]
                    /\ UNCHANGED cpc
               ELSE /\ cpc' = [cpc EXCEPT ![c] = "awaiting"]
                    /\ call' = [call EXCEPT ![c] = rec]
    /\ UNCHANGED <<sqliteVars, cacheVars, directVars, ttlcfg, execLog>>

\* The caller resumes from `await pending`: the task is done and its done
\* callbacks, registered before the caller's wake-up, have run.
CallReturn(c) ==
    /\ cpc[c] = "awaiting"
    /\ Done(call[c].task)
    /\ tasks[call[c].task].cb
    /\ cpc' = [cpc EXCEPT ![c] = "idle"]
    /\ call' = [call EXCEPT ![c].out = tasks[call[c].task].result]
    /\ UNCHANGED <<sqliteVars, cacheVars, directVars, ttlcfg, ongoing, tasks, execLog, nops,
                   invalSerial>>

\* A get_or_compute that calls the wrapped function whatever get answered.
AfterGetAlwaysComputes(task, g) == [task EXCEPT !.pc = "in_fn", !.got = g]
\* get_or_compute after cache.get answered g: KeyError is passed over and
\* the wrapped function is called; anything else is returned.
AfterGet(task, g) ==
    IF g = KeyError
    THEN [task EXCEPT !.pc = "in_fn", !.got = g]
    ELSE [task EXCEPT !.pc = "finished", !.got = g, !.result = g]

\* The task's first step: `await cache.get(key)`.
TaskStart(t) ==
    LET g == Get(backend, data, tasks[t].key, now) IN
    /\ tasks[t].pc = "created"
    /\ IF Suspends(backend)
       THEN /\ tasks' = [tasks EXCEPT ![t].pc = "get_ret", ![t].got = g]
            /\ UNCHANGED execLog
       ELSE /\ tasks' = [tasks EXCEPT ![t] = AfterGet(tasks[t], g)]
            /\ execLog' = IF g = KeyError THEN Invoke(execLog, t) ELSE execLog
    /\ UNCHANGED <<sqliteVars, cacheVars, directVars, ttlcfg, ongoing, cpc, call, nops,
                   invalSerial>>

\* SqliteCache: the task resumes from `await cache.get(key)`.
TaskGetReturn(t) ==
    /\ tasks[t].pc = "get_ret"
    /\ tasks' = [tasks EXCEPT ![t] = AfterGet(tasks[t], tasks[t].got)]
    /\ execLog' = IF tasks[t].got = KeyError THEN Invoke(execLog, t) ELSE execLog
    /\ UNCHANGED <<sqliteVars, cacheVars, directVars, ttlcfg, ongoing, cpc, call, nops,
                   invalSerial>>

\* A get_or_compute that swallows the exception and stores what it has.
AfterFnSwallowsException(task, n, raises, ttl) ==
    [task EXCEPT !.pc = "putting", !.ttl = ttl]
\* get_or_compute after the wrapped function: an exception ends the task;
\* a value gets its ttl from the policy and is put.
AfterFn(task, n, raises, ttl) ==
    IF raises
    THEN [task EXCEPT !.pc = "finished", !.result = Raised(n)]
    ELSE [task EXCEPT !.pc = "putting", !.ttl = ttl]

\* get_or_compute after cache.put: return value.
AfterPut(task, n) == [task EXCEPT !.pc = "finished", !.result = Value(n)]

\* `await fn(*args, **kwargs)` ends, by returning a new object or raising;
\* then value_ttl = ttl(fn, args, kwargs, value) and `await cache.put(...)`.
FnReturn(t, raises, ttl) ==
    LET n == ExecOf(t)
        after == AfterFn(tasks[t], n, raises, ttl)
    IN
    /\ tasks[t].pc = "in_fn"
    /\ ttl \in TtlPolicy(ttlcfg)
    /\ IF after.pc = "putting" /\ ~Suspends(backend)
       THEN /\ data' = Put(backend, data, after.key, n, after.ttl, now)
            /\ tasks' = [tasks EXCEPT ![t] = AfterPut(after, n)]
       ELSE /\ tasks' = [tasks EXCEPT ![t] = after]
            /\ UNCHANGED data
    /\ execLog' = [execLog EXCEPT ![n].out = IF raises THEN "raised" ELSE "returned"]
    /\ UNCHANGED <<sqliteVars, backend, now, directVars, ttlcfg, ongoing, cpc, call, nops,
                   invalSerial>>

\* SqliteCache: put holds the lock, reads the clock and writes the row.
TaskPut(t) ==
    /\ tasks[t].pc = "putting"
    /\ data' = Put(backend, data, tasks[t].key, ExecOf(t), tasks[t].ttl, now)
    /\ tasks' = [tasks EXCEPT ![t].pc = "put_ret"]
    /\ UNCHANGED <<sqliteVars, backend, now, directVars, ttlcfg, ongoing, execLog, cpc, call,
                   nops, invalSerial>>

\* SqliteCache: the task resumes from `await cache.put(...)` and returns.
TaskPutReturn(t) ==
    /\ tasks[t].pc = "put_ret"
    /\ tasks' = [tasks EXCEPT ![t] = AfterPut(tasks[t], ExecOf(t))]
    /\ UNCHANGED <<sqliteVars, cacheVars, directVars, ttlcfg, ongoing, execLog, cpc, call,
                   nops, invalSerial>>

\* The event loop runs the done callback of a finished task.
DoneCallback(t) ==
    /\ Done(t)
    /\ ~tasks[t].cb
    /\ ongoing' = DoneCallbackTable(ongoing, tasks[t])
    /\ tasks' = [tasks EXCEPT ![t].cb = TRUE]
    /\ UNCHANGED <<sqliteVars, cacheVars, directVars, ttlcfg, execLog, cpc, call, nops,
                   invalSerial>>

\* Whether a computation for key k is registered and not yet done.
InFlight(k) == ongoing[k] # 0 /\ ~Done(ongoing[k])
\* The last execution for key k that has ended (0: none has).
LastEnded(k) ==
    LET S == {i \in 1..Len(execLog) :
                tasks[execLog[i].task].key = k /\ execLog[i].out # "running"}
    IN IF S = {} THEN 0 ELSE CHOOSE i \in S : \A j \in S : j <= i

\* wrapper.invalidate(x): `await cache.remove(key)`.
Invalidate(c, x) ==
    LET k == KeyOf(x)
        r == Remove(backend, data, k)
        rec == NewCall("invalidate", k, 0, -1, InFlight(k))
    IN
    /\ cpc[c] = "idle"
    /\ nops < MaxOps
    /\ nops' = nops + 1
    /\ data' = r.data
    /\ IF Suspends(backend)
       THEN /\ cpc' = [cpc EXCEPT ![c] = "invalidating"]
            /\ call' = [call EXCEPT ![c] = rec]
            /\ UNCHANGED invalSerial
       ELSE /\ call' = [call EXCEPT ![c] = [rec EXCEPT !.out = r.out]]
            /\ invalSerial' = IF r.out = KeyError THEN invalSerial
                              ELSE [invalSerial EXCEPT ![k] = LastEnded(k)]
            /\ UNCHANGED cpc
    /\ UNCHANGED <<sqliteVars, backend, now, directVars, ttlcfg, ongoing, tasks, execLog>>

\* SqliteCache: the caller resumes from `await cache.remove(key)`.
InvalidateReturn(c) ==
    /\ cpc[c] = "invalidating"
    /\ cpc' = [cpc EXCEPT ![c] = "idle"]
    /\ call' = [call EXCEPT ![c].out = PyNone]
    /\ invalSerial' = [invalSerial EXCEPT ![call[c].key] = LastEnded(call[c].key)]
    /\ UNCHANGED <<sqliteVars, cacheVars, directVars, ttlcfg, ongoing, tasks, execLog, nops>>

\* Some coroutine awaits cache.clock.sleep(n).
Sleep(n) ==
    /\ now + n <= MaxNow
    /\ now' = now + n
    /\ UNCHANGED <<sqliteVars, backend, data, directVars, memoVars>>

Next ==
    \/ \E c \in Callers, x \in Args : Call(c, x)
    \/ \E c \in Callers : CallReturn(c)
    \/ \E c \in Callers, x \in Args : Invalidate(c, x)
    \/ \E c \in Callers : InvalidateReturn(c)
    \/ \E t \in TaskIds : TaskStart(t)
    \/ \E t \in TaskIds : TaskGetReturn(t)
    \/ \E t \in TaskIds, raises \in BOOLEAN, ttl \in Ttls : FnReturn(t, raises, ttl)
    \/ \E t \in TaskIds : TaskPut(t)
    \/ \E t \in TaskIds : TaskPutReturn(t)
    \/ \E t \in TaskIds : DoneCallback(t)
    \/ \E n \in 1..MaxNow : Sleep(n)

Spec == Init /\ [][Next]_vars

\* The event loop runs every ready handle: a finished task's done callback
\* is scheduled with call_soon and runs.
FairSpec == Spec /\ \A t \in 1..MaxTasks : WF_vars(t \in TaskIds /\ DoneCallback(t))

\* One step of the task t, whichever it is at.
TaskStep(t) ==
    \/ TaskStart(t)
    \/ TaskGetReturn(t)
    \/ \E raises \in BOOLEAN, ttl \in Ttls : FnReturn(t, raises, ttl)
    \/ TaskPut(t)
    \/ TaskPutReturn(t)
    \/ DoneCallback(t)

\* The key whose wrapped function never returns.
StuckKey == KeyOf(5)

\* The event loop runs every ready task and handle, and the wrapped function
\* returns or raises for every key but StuckKey; for StuckKey nothing is
\* promised.
FairSpecOtherKeys ==
    /\ Spec
    /\ \A t \in 1..MaxTasks :
          WF_vars(t \in TaskIds /\ tasks[t].key # StuckKey /\ TaskStep(t))
    /\ \A c \in Callers : WF_vars(CallReturn(c))

\* ----------------------------------------------------------- SpecAnyTtl
\* cached(cache, key_maker, ttl) called with any of the ttl arguments.  When
\* _parse_ttl_function raises ValueError, cached returns no decorator and
\* there is no memoized function to call; the clock still runs.
InitAnyTtl ==
    /\ backend \in Backends
    /\ data = [k \in Keys |-> Absent]
    /\ now = 0
    /\ res = NoRes
    /\ lastPut = [k \in CacheKeys |-> NoPut]
    /\ ttlcfg \in TtlConfigs
    /\ InitMemo
    /\ filename = ":memory:"
    /\ InitSqliteVars

NextAnyTtl ==
    \/ ParseTtlOk(ttlcfg) /\ Next
    \/ \E n \in 1..MaxNow : Sleep(n)

SpecAnyTtl == InitAnyTtl /\ [][NextAnyTtl]_vars

\* ----------------------------------------------------------- SpecSqlite
\* One SqliteCache instance used by concurrent coroutines, at the grain of
\* its awaits.  A step is the resumption of a coroutine from an await: the
\* awaited database call has taken effect, and the coroutine runs on to its
\* next await or to the end of the operation.

\* A lock that lets every coroutine in.
AcquiresAlways(q, c) == TRUE
\* asyncio.Lock.acquire: a coroutine gets the lock when nobody holds or
\* waits for it, or when it is the first in line after a release.
Acquires(q, c) == q = <<>> \/ Head(q) = c

\* A connection test that never finds the connection.
NeedsConnectAlways(d) == TRUE
\* _ensure_connected: `if self.db is None`.
NeedsConnect(d) == d.conn = 0

\* The operations of the instance, with their arguments.
SqliteCalls ==
    {[IdleCo EXCEPT !.op = "get", !.key = k] : k \in CacheKeys}
    \cup {[IdleCo EXCEPT !.op = "put", !.key = k, !.value = 1, !.ttl = ttl] :
             k \in CacheKeys, ttl \in {NoTtl, 1}}
    \cup {[IdleCo EXCEPT !.op = "remove", !.key = k] : k \in CacheKeys}
    \cup {[IdleCo EXCEPT !.op = o] :
             o \in {"remove_expired", "data", "aenter", "close"}}
    \cup {[IdleCo EXCEPT !.op = "aexit", !.failed = f] : f \in BOOLEAN}

\* The first await of an operation that has the lock: _close awaits
\* db.close() when there is a connection; the other operations call
\* _ensure_connected, which awaits connect() when there is none; __aenter__
\* has nothing more to do, the others run their query.
FirstAwait(op, d) ==
    IF op \in {"aexit", "close"}
    THEN (IF d.conn # 0 THEN "closing" ELSE "idle")
    ELSE IF NeedsConnect(d) THEN "connecting"
    ELSE IF op = "aenter" THEN "idle"
    ELSE "query"

\* What is kept of an operation that ended: which it was, whether it
\* waited, and its outcome.
Ended(r, out) ==
    [IdleCo EXCEPT !.op = r.op, !.failed = r.failed, !.waited = r.waited,
                   !.out = out]

\* The coroutine has the lock: get and put read the clock, remove_expired
\* reads it in _remove_expired, and it runs to its first await.
Locked(r) ==
    IF FirstAwait(r.op, db) = "idle" THEN Ended(r, PyNone)
    ELSE [r EXCEPT !.now = IF r.op \in {"get", "put", "remove_expired"}
                           THEN now ELSE @,
                   !.pc = FirstAwait(r.op, db)]

\* Leaving `async with self.db_lock`, by return or by exception.
Release(q, c) == SelectSeq(q, LAMBDA x : x # c)

\* The operation of coroutine c ends with outcome out and releases the lock.
Finish(c, out) ==
    /\ co' = [co EXCEPT ![c] = Ended(co[c], out)]
    /\ db_lock' = Release(db_lock, c)

\* A coroutine calls an operation: data() reads the clock, then
\* `async with self.db_lock`.
Begin(c, r) ==
    LET r0 == [r EXCEPT !.now = IF r.op = "data" THEN now ELSE @] IN
    /\ co[c].pc = "idle"
    /\ nops < MaxOps
    /\ nops' = nops + 1
    /\ IF Acquires(db_lock, c)
       THEN /\ co' = [co EXCEPT ![c] = Locked(r0)]
            /\ db_lock' = IF Locked(r0).pc = "idle" THEN db_lock
                          ELSE Append(db_lock, c)
       ELSE /\ co' = [co EXCEPT ![c] = [r0 EXCEPT !.pc = "waiting", !.waited = TRUE]]
            /\ db_lock' = Append(db_lock, c)
    /\ UNCHANGED <<cacheVars, directVars, ttlcfg, ongoing, tasks, execLog, cpc,
                   call, invalSerial, filename, db, nconn, opened>>

\* A waiting coroutine is woken with the lock.
Enter(c) ==
    /\ co[c].pc = "waiting"
    /\ Acquires(db_lock, c)
    /\ co' = [co EXCEPT ![c] = Locked(co[c])]
    /\ db_lock' = IF Locked(co[c]).pc = "idle" THEN Release(db_lock, c) ELSE db_lock
    /\ UNCHANGED <<cacheVars, directVars, memoVars, filename, db, nconn, opened>>

\* self.db = await aiosqlite.connect(self.filename); then CREATE TABLE.
Connect(c) ==
    /\ co[c].pc = "connecting"
    /\ db' = [NoDb EXCEPT !.conn = nconn + 1]
    /\ nconn' = nconn + 1
    /\ opened' = opened + 1
    /\ co' = [co EXCEPT ![c].pc = "create_table"]
    /\ UNCHANGED <<cacheVars, directVars, memoVars, filename, db_lock>>

\* CREATE TABLE IF NOT EXISTS cache done; then CREATE INDEX.
CreateTable(c) ==
    /\ co[c].pc = "create_table"
    /\ db' = [db EXCEPT !.table = TRUE]
    /\ co' = [co EXCEPT ![c].pc = "create_index"]
    /\ UNCHANGED <<cacheVars, directVars, memoVars, filename, db_lock, nconn, opened>>

\* CREATE INDEX IF NOT EXISTS done; then _remove_expired reads the clock,
\* finds the connection there and issues its DELETE.
CreateIndex(c) ==
    /\ co[c].pc = "create_index"
    /\ db' = [db EXCEPT !.index = TRUE]
    /\ co' = [co EXCEPT ![c].pc = "sweep", ![c].snow = now]
    /\ UNCHANGED <<cacheVars, directVars, memoVars, filename, db_lock, nconn, opened>>

\* The DELETE of _ensure_connected's sweep done; then commit.
Sweep(c) ==
    /\ co[c].pc = "sweep"
    /\ data' = SqliteCacheRemoveExpired(data, co[c].snow)
    /\ db' = [db EXCEPT !.swept = TRUE]
    /\ co' = [co EXCEPT ![c].pc = "setup_commit"]
    /\ UNCHANGED <<backend, now, directVars, memoVars, filename, db_lock, nconn, opened>>

\* The commit of _ensure_connected done: __aenter__ returns self, the other
\* operations issue their query.
SetupCommit(c) ==
    /\ co[c].pc = "setup_commit"
    /\ db' = [db EXCEPT !.committed = TRUE]
    /\ IF co[c].op = "aenter"
       THEN Finish(c, PyNone)
       ELSE /\ co' = [co EXCEPT ![c].pc = "query"]
            /\ UNCHANGED db_lock
    /\ UNCHANGED <<cacheVars, directVars, memoVars, filename, nconn, opened>>

\* The operation's statement done: get returns the decoded value or raises
\* KeyError, remove_expired and data() return, put and remove commit.
Query(c) ==
    LET r == co[c] IN
    /\ r.pc = "query"
    /\ CASE r.op = "get" ->
              /\ Finish(c, SqliteCacheGet(data, r.key, r.now))
              /\ UNCHANGED data
         [] r.op = "put" ->
              /\ data' = SqliteCachePut(data, r.key, r.value, r.ttl, r.now)
              /\ co' = [co EXCEPT ![c].pc = "commit"]
              /\ UNCHANGED db_lock
         [] r.op = "remove" ->
              /\ data' = SqliteCacheRemove(data, r.key).data
              /\ co' = [co EXCEPT ![c].pc = "commit"]
              /\ UNCHANGED db_lock
         [] r.op = "remove_expired" ->
              /\ data' = SqliteCacheRemoveExpired(data, r.now)
              /\ Finish(c, PyNone)
         [] r.op = "data" ->
              /\ Finish(c, PyNone)
              /\ UNCHANGED data
    /\ UNCHANGED <<backend, now, directVars, memoVars, filename, db, nconn, opened>>

\* await self.db.commit() of put / remove done.
Commit(c) ==
    /\ co[c].pc = "commit"
    /\ Finish(c, PyNone)
    /\ UNCHANGED <<cacheVars, directVars, memoVars, filename, db, nconn, opened>>

\* _close: await self.db.close() done; self.db = None.  An in-memory
\* database goes with its connection.
Closing(c) ==
    /\ co[c].pc = "closing"
    /\ db' = NoDb
    /\ opened' = opened - 1
    /\ data' = IF filename = ":memory:" THEN [k \in DOMAIN data |-> Absent] ELSE data
    /\ Finish(c, PyNone)
    /\ UNCHANGED <<backend, now, directVars, memoVars, filename, nconn>>

\* A SqliteCache just constructed, on an in-memory database or on a file
\* that a prior process may have left a row in.
InitSqlite ==
    /\ backend = "SqliteCache"
    /\ filename \in {":memory:", "cache.db"}
    /\ data \in {[k \in CacheKeys |-> Absent]}
               \cup (IF filename = ":memory:" THEN {}
                     ELSE {[k \in CacheKeys |->
                              IF k = "foo" THEN Entry(Encode(1), 0) ELSE Absent]})
    /\ now = 0
    /\ res = NoRes
    /\ lastPut = [k \in CacheKeys |-> NoPut]
    /\ ttlcfg = TtlNone
    /\ InitMemo
    /\ InitSqliteVars

NextSqlite ==
    \/ \E c \in Callers, r \in SqliteCalls : Begin(c, r)
    \/ \E c \in Callers : Enter(c)
    \/ \E c \in Callers : Connect(c)
    \/ \E c \in Callers : CreateTable(c)
    \/ \E c \in Callers : CreateIndex(c)
    \/ \E c \in Callers : Sweep(c)
    \/ \E c \in Callers : SetupCommit(c)
    \/ \E c \in Callers : Query(c)
    \/ \E c \in Callers : Commit(c)
    \/ \E c \in Callers : Closing(c)
    \/ \E n \in 1..MaxNow : Sleep(n)

SpecSqlite == InitSqlite /\ [][NextSqlite]_vars

\* ================================================================ claims
\* Whether the store holds a live entry for k at time t.
Live(d, k, t) == ~IsAbsent(d[k]) /\ NotExpired(d[k], t)
\* The value a stored entry stands for (SqliteCache rows hold the blob).
StoredValue(e) == IF Suspends(backend) THEN Decode(e.value) ELSE e.value
\* Task t is the first computation ever registered for its key.
FirstFor(t) == \A u \in 1..(t - 1) : tasks[u].key # tasks[t].key
\* The computation registered for t's key just before t (0: none).
PrevFor(t) ==
    LET S == {u \in 1..(t - 1) : tasks[u].key = tasks[t].key}
    IN IF S = {} THEN 0 ELSE CHOOSE u \in S : \A w \in S : w <= u
\* Task t has got past `await cache.get(key)`.
PastGet(t) == tasks[t].pc \notin {"created", "get_ret"}
\* Caller c called the memoized function and has its outcome.
Returned(c) == call[c].op = "call" /\ call[c].out # Pending

\* C1: single-flight.  At no time are two computations registered for one
\* key; a computation executes the wrapped function at most once; the first
\* computation for a key (the cache holds nothing for it and none has
\* finished before) executes it exactly once, and every caller that awaited
\* that computation receives that one execution's outcome.
C1_SingleFlight ==
    /\ \A t, u \in TaskIds :
         (t # u /\ tasks[t].key = tasks[u].key) => (tasks[t].cb \/ tasks[u].cb)
    /\ \A t \in TaskIds :
         /\ Cardinality(ExecsOf(t)) <= 1
         /\ ~tasks[t].cb => ongoing[tasks[t].key] = t
         /\ (FirstFor(t) /\ PastGet(t)) => Cardinality(ExecsOf(t)) = 1
         /\ (FirstFor(t) /\ Done(t)) =>
               tasks[t].result \in {Value(ExecOf(t)), Raised(ExecOf(t))}
    /\ \A c \in Callers :
         (Returned(c) /\ FirstFor(call[c].task)) =>
            /\ call[c].out = tasks[call[c].task].result
            /\ call[c].out.v = ExecOf(call[c].task)

\* Two callers awaited the one computation for a key, the wrapped function
\* ran once, and both hold the object it returned.
C1_Witness ==
    \E t \in TaskIds : \E c1, c2 \in Callers :
        /\ c1 # c2
        /\ FirstFor(t)
        /\ Cardinality(ExecsOf(t)) = 1
        /\ Returned(c1) /\ call[c1].task = t /\ call[c1].out = Value(ExecOf(t))
        /\ Returned(c2) /\ call[c2].task = t /\ call[c2].out = Value(ExecOf(t))

\* C2 (its expiry clause): for every backend and key, once the clock has
\* advanced by more than ttl since put(key, value, ttl), ttl > 0, with no
\* put or remove on that key in between, get(key) fails with KeyError.
C2_ExpiredGetFails ==
    (/\ res.op = "get"
     /\ lastPut[res.key] # NoPut
     /\ lastPut[res.key].ttl > 0
     /\ res.at > lastPut[res.key].at + lastPut[res.key].ttl)
    => res.out = KeyError

\* C2 (its first clause, for the backends that store): get(key) right after
\* put(key, value, ttl), the clock not advanced, returns value.  NoCache.get
\* raises KeyError whatever was put.
C2_FreshGetReturnsValue ==
    (/\ res.op = "get"
     /\ backend # "NoCache"
     /\ lastPut[res.key] # NoPut
     /\ res.at = lastPut[res.key].at)
    => res.out = Value(lastPut[res.key].value)

\* C3: over DictCache with a finite ttl, whatever a memoized call returns is
\* an object that some execution of the wrapped function for that key
\* returned (a call made after the entry expired executes it again and
\* returns the new result).
C3_ReturnedValueWasComputed ==
    \A c \in Callers :
        (/\ backend = "DictCache"
         /\ ttlcfg.kind # "none"
         /\ Returned(c)
         /\ call[c].out.kind # "exc")
        => /\ call[c].out.kind = "value"
           /\ call[c].out.v \in 1..Len(execLog)
           /\ execLog[call[c].out.v].out = "returned"
           /\ tasks[execLog[call[c].out.v].task].key = call[c].key

\* C4: every pending-table entry is eventually removed once its computation
\* has finished, with a value or with a failure, and a removed entry is out
\* of the table; the computation registered next for a key whose previous
\* computation failed finds nothing in the cache and executes the wrapped
\* function again.
C4_CleanupThenRetry ==
    /\ \A t \in 1..MaxTasks :
         (t \in TaskIds /\ Done(t)) ~> (t \in TaskIds /\ ongoing[tasks[t].key] # t)
    /\ [](\A t \in TaskIds :
            /\ tasks[t].cb => ongoing[tasks[t].key] # t
            /\ (/\ PrevFor(t) # 0
                /\ tasks[PrevFor(t)].result.kind = "exc"
                /\ PastGet(t))
               => /\ tasks[t].got = KeyError
                  /\ Cardinality(ExecsOf(t)) = 1
                  /\ ExecOf(t) # ExecOf(PrevFor(t)))

\* A computation failed, its entry was removed, and the next call with the
\* same key registered a new computation that ran the wrapped function and
\* returned its value to the caller.
C4_Witness ==
    \E t \in TaskIds : \E c \in Callers :
        /\ PrevFor(t) # 0
        /\ tasks[PrevFor(t)].result.kind = "exc"
        /\ Done(t)
        /\ Returned(c) /\ call[c].task = t /\ call[c].out = Value(ExecOf(t))

\* C5: when the wrapped function raises in a computation, the computation
\* ends with that exception without evaluating the TTL policy or calling
\* put, the cache holds nothing that execution produced, the function is
\* executed once for that computation, and every caller that awaited it
\* receives that exception.
C5_FailurePropagates ==
    \A n \in 1..Len(execLog) :
        execLog[n].out = "raised" =>
            LET t == execLog[n].task IN
            /\ Done(t)
            /\ tasks[t].result = Raised(n)
            /\ tasks[t].ttl = -2
            /\ ExecsOf(t) = {n}
            /\ \A k \in Keys : ~IsAbsent(data[k]) => StoredValue(data[k]) # n
            /\ \A c \in Callers :
                 (Returned(c) /\ call[c].task = t) => call[c].out = Raised(n)

\* Two callers awaited one computation whose execution raised, and both got
\* the exception.
C5_Witness ==
    \E n \in 1..Len(execLog) : \E c1, c2 \in Callers :
        /\ c1 # c2
        /\ execLog[n].out = "raised"
        /\ Returned(c1) /\ call[c1].task = execLog[n].task /\ call[c1].out = Raised(n)
        /\ Returned(c2) /\ call[c2].task = execLog[n].task /\ call[c2].out = Raised(n)

\* C6: with ttl = None no call leaves a retrievable entry in the cache.
C6_NoneTtlStoresNothing ==
    ttlcfg = TtlNone => \A k \in Keys : Get(backend, data, k, now) = KeyError

\* C7: for every backend, remove(key) on a key that has no entry completes
\* without failure and leaves the cache as it was.
C7_RemoveAbsentIsNoOp ==
    (res.op = "remove" /\ IsAbsent(res.entry))
    => (res.out # KeyError /\ IsAbsent(data[res.key]))

\* C8 (in the scenario of the test: DictCache, ttl = (min, max)): the first
\* call made with a key after invalidate returned for it does not return an
\* outcome that already existed when invalidate returned: its value (or
\* failure) comes from an execution of the wrapped function that ended
\* after the invalidation.
C8_CallAfterInvalidateIsFresh ==
    \A c \in Callers :
        (/\ backend = "DictCache"
         /\ ttlcfg.kind = "range"
         /\ Returned(c)
         /\ call[c].thr >= 0)
        => (call[c].out.kind \in {"value", "exc"} /\ call[c].out.v > call[c].thr)

\* C9: invalidate called while a computation for the same key is in flight
\* returns without failure.
C9_InvalidateInFlightSucceeds ==
    \A c \in Callers :
        (call[c].op = "invalidate" /\ call[c].inflight) => call[c].out # KeyError

\* C10: a computation whose cache.get finds a live entry ends with exactly
\* the stored value, never executes the wrapped function, never evaluates
\* the TTL policy and never calls put; the step in which it reads the entry
\* leaves the store as it is; its callers get the stored value.
C10_HitReturnsStoredValue ==
    /\ [](\A t \in TaskIds :
            tasks[t].got.kind = "value" =>
                /\ tasks[t].pc \in {"get_ret", "finished"}
                /\ Done(t) => tasks[t].result = tasks[t].got
                /\ ExecsOf(t) = {}
                /\ tasks[t].ttl = -2
                /\ \A c \in Callers :
                     (Returned(c) /\ call[c].task = t) => call[c].out = tasks[t].got)
    /\ [][\A t \in TaskIds :
            (/\ tasks[t].pc = "created"
             /\ tasks'[t].pc # "created"
             /\ Live(data, tasks[t].key, now))
            => /\ tasks'[t].got = Value(StoredValue(data[tasks[t].key]))
               /\ data' = data
               /\ execLog' = execLog]_vars

\* A call found a live entry and returned it: the computation ended with
\* the stored value, which an earlier computation had produced.
C10_Witness ==
    \E t \in TaskIds : \E c \in Callers :
        /\ tasks[t].got.kind = "value"
        /\ Done(t)
        /\ Returned(c) /\ call[c].task = t /\ call[c].out = tasks[t].got
        /\ ~IsAbsent(data[tasks[t].key])
        /\ StoredValue(data[tasks[t].key]) = tasks[t].got.v

\* C11: for every backend, key and default d, getOrDefault(key, d) never
\* fails; it returns the stored value when the key has a live entry and d
\* when the key has no entry (never written, removed) or its entry expired.
C11_GetOrDefaultTotal ==
    res.op = "getOrDefault" =>
        /\ res.out # KeyError
        /\ IF Live(data, res.key, res.at)
           THEN res.out = Value(StoredValue(data[res.key]))
           ELSE res.out = res.arg

\* The stored form of a value (SqliteCache rows hold the blob).
StoredForm(v) == IF Suspends(backend) THEN Encode(v) ELSE v
\* Whether a put made at time at with ttl is live at time t.
LiveBy(ttl, at, t) == ttl = NoTtl \/ t <= at + ttl

\* C12: for DictCache and SqliteCache, put on a key that has an entry
\* replaces it entirely: the entry afterwards is made of the new value and
\* the new ttl only, get at any later time returns the new value exactly
\* while the new ttl has not run out and no value afterwards, and a
\* snapshot holds at most one entry per key.
C12_PutReplaces ==
    backend # "NoCache" =>
        /\ (res.op = "put" /\ ~IsAbsent(res.entry)) =>
              LET p == lastPut[res.key] IN
              /\ data[res.key] = Entry(StoredForm(p.value), ExpiresAt(p.ttl, p.at))
              /\ \A t \in now..(MaxNow + MaxTtl + 1) :
                    Get(backend, data, res.key, t).kind = "value"
                        <=> LiveBy(p.ttl, p.at, t)
        /\ (res.op = "get" /\ lastPut[res.key] # NoPut) =>
              LET p == lastPut[res.key] IN
              /\ res.out.kind = "value" <=> LiveBy(p.ttl, p.at, res.at)
              /\ res.out.kind = "value" => res.out = Value(p.value)
        /\ res.op = "data" =>
              \A a, b \in res.snap : a[1] = b[1] => a = b

\* A put with ttl = None has just replaced a live entry that had another
\* value and a finite expiry: past the old expiry, get returns the new value.
C12_Witness ==
    /\ backend # "NoCache"
    /\ res.op = "put"
    /\ ~IsAbsent(res.entry)
    /\ res.entry.expires_at # NoTtl
    /\ res.entry.expires_at >= now
    /\ res.entry.value # StoredForm(lastPut[res.key].value)
    /\ lastPut[res.key].ttl = NoTtl
    /\ Get(backend, data, res.key, res.entry.expires_at + 1)
         = Value(lastPut[res.key].value)

\* C13: for DictCache and SqliteCache, after put(key, value, None) every
\* get(key) returns value for as long as no put or remove is applied to
\* the key: no clock advance, remove_expired, data() or operation on
\* another key touches the entry.
C13_NoTtlNeverExpires ==
    /\ [](/\ backend # "NoCache"
          /\ res.op = "get"
          /\ lastPut[res.key] # NoPut
          /\ lastPut[res.key].ttl = NoTtl
          => res.out = Value(lastPut[res.key].value))
    /\ [][\A k \in CacheKeys :
            (/\ backend # "NoCache"
             /\ lastPut[k] # NoPut
             /\ lastPut[k].ttl = NoTtl
             /\ ~(res'.op \in {"put", "remove"} /\ res'.key = k))
            => /\ data'[k] = data[k]
               /\ data[k] = Entry(StoredForm(lastPut[k].value), NoTtl)]_vars

\* get returned the value of a put made without ttl, after the clock had
\* advanced to its end and a put with a ttl on the other key had expired.
C13_Witness ==
    /\ backend # "NoCache"
    /\ res.op = "get"
    /\ lastPut[res.key] # NoPut
    /\ lastPut[res.key].ttl = NoTtl
    /\ lastPut[res.key].at = 0
    /\ res.at = MaxNow
    /\ res.out = Value(lastPut[res.key].value)
    /\ \E k \in CacheKeys \ {res.key} :
          lastPut[k] # NoPut /\ lastPut[k].ttl # NoTtl /\ IsAbsent(data[k])

\* The entries of d that a sweep at time t deletes: expires_at < t.
Swept(d, t) ==
    {k \in DOMAIN d : ~IsAbsent(d[k]) /\ d[k].expires_at # NoTtl
                                      /\ d[k].expires_at < t}

\* C14: the expiry boundary is inclusive in every operation.  An entry whose
\* expires_at equals the clock time is live: get returns its value, data()
\* includes it, remove_expired keeps it.  An entry is treated as expired
\* (get returns no value, data() leaves it out, remove_expired deletes it)
\* exactly when its expires_at is strictly less than the clock time.
C14_InclusiveBoundary ==
    /\ [](/\ (res.op = "get" /\ ~IsAbsent(res.entry)) =>
               IF res.entry.expires_at = NoTtl \/ res.entry.expires_at >= res.at
               THEN res.out = Value(StoredValue(res.entry))
               ELSE res.out.kind # "value"
          /\ res.op = "data" =>
               \A k \in CacheKeys :
                   <<k, StoredValue(data[k])>> \in res.snap
                       <=> (~IsAbsent(data[k]) /\ k \notin Swept(data, res.at)))
    /\ [][res'.op = "remove_expired" =>
            \A k \in CacheKeys :
                data'[k] = IF k \in Swept(data, now) THEN Absent ELSE data[k]]_vars

\* get was called at the very time an entry expires_at, after the clock had
\* advanced, and returned the entry's value.
C14_Witness ==
    /\ res.op = "get"
    /\ ~IsAbsent(res.entry)
    /\ res.entry.expires_at = res.at
    /\ res.at > 0
    /\ res.out = Value(StoredValue(res.entry))

\* C18: remove_expired deletes exactly the entries whose expires_at is
\* strictly before the clock time, and get does not depend on it: for every
\* key, get right after remove_expired gives what it would have given
\* without it.
C18_SweepDoesNotChangeGet ==
    [][res'.op = "remove_expired" =>
        /\ \A k \in CacheKeys :
              data'[k] = IF k \in Swept(data, now) THEN Absent ELSE data[k]
        /\ \A k \in CacheKeys :
              Get(backend, data', k, now') = Get(backend, data, k, now)]_vars

\* Every computation registered for key k is still running or not started.
NeverCompleted(k) == \A t \in TaskIds : tasks[t].key = k => ~Done(t)

\* C15: computations for different keys are independent.  The lock of the
\* pending table is never held between steps, so whatever a computation for
\* another key is doing, an idle caller can make a call with key k (it
\* joins the registered computation or registers one); a step of one
\* computation changes no other computation, no other key's table entry
\* and no other key's cache entry; and while the computations for StuckKey
\* never complete, every caller awaiting a computation for another key
\* returns with that computation's outcome.
C15_KeysIndependent ==
    /\ [](\A c \in Callers, x \in Args :
            (/\ cpc[c] = "idle"
             /\ nops < MaxOps
             /\ (ongoing[KeyOf(x)] # 0 \/ Len(tasks) < MaxTasks))
            => ENABLED Call(c, x))
    /\ [][\A t \in TaskIds :
            tasks'[t] # tasks[t] =>
                /\ \A u \in TaskIds \ {t} : tasks'[u] = tasks[u]
                /\ \A k \in Keys \ {tasks[t].key} :
                      ongoing'[k] = ongoing[k] /\ data'[k] = data[k]]_vars
    /\ \A c \in Callers :
          (cpc[c] = "awaiting" /\ call[c].key # StuckKey)
              ~> (/\ cpc[c] = "idle"
                  /\ Returned(c)
                  /\ call[c].key # StuckKey
                  /\ call[c].out = tasks[call[c].task].result)

\* A computation for StuckKey is inside the wrapped function; a computation
\* for another key was registered after it, ran the function, stored the
\* result and its caller has the value.
C15_Witness ==
    \E t, u \in TaskIds : \E c \in Callers :
        /\ t < u
        /\ tasks[t].key = StuckKey
        /\ tasks[t].pc = "in_fn"
        /\ NeverCompleted(StuckKey)
        /\ tasks[u].key # StuckKey
        /\ Done(u)
        /\ Returned(c) /\ call[c].task = u /\ call[c].out = Value(ExecOf(u))

\* Coroutine c is inside `async with self.db_lock`, between its connect,
\* query, commit or close awaits.
InsideDb(c) == co[c].pc \notin {"idle", "waiting"}
\* The coroutines in the lock's line.
InLine == {db_lock[i] : i \in 1..Len(db_lock)}

\* C16: on one SqliteCache, get, put, remove, remove_expired, data(),
\* __aenter__, __aexit__ and close exclude one another: at most one
\* coroutine is inside the locked section, it is the one at the head of the
\* lock's line, and the step that ends an operation, by return or by
\* KeyError, takes its coroutine out of the line.
C16_DbLockExclusive ==
    /\ [](/\ Cardinality({c \in Callers : InsideDb(c)}) <= 1
          /\ \A c \in Callers :
                /\ InsideDb(c) => (db_lock # <<>> /\ Head(db_lock) = c)
                /\ co[c].pc = "waiting" => c \in InLine
                /\ co[c].pc = "idle" => c \notin InLine)
    /\ [][\A c \in Callers :
            (co[c].pc # "idle" /\ co'[c].pc = "idle")
            => /\ c \notin {db_lock'[i] : i \in 1..Len(db_lock')}
               /\ \A d \in Callers \ {c} : co[d].pc = "waiting" => co'[d] = co[d]]_vars

\* A get that had to wait for the lock raised KeyError and left the lock;
\* the coroutine that held the lock before has come back, waited behind
\* it, and is inside now.
C16_Witness ==
    \E c, d \in Callers :
        /\ c # d
        /\ co[c].pc = "idle" /\ co[c].op = "get" /\ co[c].waited
        /\ co[c].out = KeyError
        /\ InsideDb(d) /\ co[d].waited
        /\ db_lock = <<d>>

\* C19: on a SqliteCache, whatever the interleaving, one connection at most
\* is open; no operation's statement runs before the connection's CREATE
\* TABLE, CREATE INDEX, one sweep and commit are done; an operation that
\* gets the lock connects exactly when there is no connection; the
\* connection changes only by a connect made without one, or by close() or
\* __aexit__ (whether or not the scoped body failed), which leave none.
C19_ConnectOnce ==
    /\ [](/\ opened = (IF db.conn = 0 THEN 0 ELSE 1)
          /\ db.conn \in {0, nconn}
          /\ \A c \in Callers :
                co[c].pc \in {"query", "commit"} =>
                    /\ db.conn # 0
                    /\ db.table /\ db.index /\ db.swept /\ db.committed)
    /\ [][/\ \A c \in Callers :
              (~InsideDb(c) /\ co'[c] # co[c] /\ co'[c].pc # "waiting"
               /\ co'[c].op \notin {"aexit", "close"})
              => (co'[c].pc = "connecting" <=> db.conn = 0)
          /\ db'.conn # db.conn =>
              \/ /\ db.conn = 0
                 /\ db'.conn = nconn + 1
                 /\ \E c \in Callers : co[c].pc = "connecting"
              \/ /\ db' = NoDb
                 /\ opened' = opened - 1
                 /\ \E c \in Callers : co[c].pc = "closing"
                                        /\ co[c].op \in {"aexit", "close"}
          /\ \A c \in Callers :
              (co[c].pc = "closing" /\ co'[c].pc = "idle") => db' = NoDb]_vars

\* Two coroutines made the first operations together and one connection
\* was opened; an __aexit__ whose scoped body had failed closed it; the next
\* operation connected again, set the connection up, and its query runs on
\* the second connection.
C19_Witness ==
    \E c, d \in Callers :
        /\ c # d
        /\ co[c].op = "aexit" /\ co[c].failed /\ co[c].pc = "idle" /\ co[c].waited
        /\ co[d].pc = "query"
        /\ nconn = 2
        /\ db.conn = 2
        /\ db.committed

\* C17: cached(ttl=f) with f a function(fn, args, kwargs, value) is
\* accepted, and every computed result is stored with a ttl that f returns.
C17_FunctionTtlAccepted ==
    ttlcfg.kind = "func" =>
        /\ ParseTtlOk(ttlcfg)
        /\ \A t \in TaskIds : tasks[t].ttl # -2 => tasks[t].ttl \in Ttls

\* C20: a pending-table entry is destroyed synchronously when its
\* computation completes: no caller's lookup finds in the table a
\* computation that has already finished and is handed its outcome (every
\* outcome a caller has comes from a computation it awaited to its end,
\* whose entry was removed before the caller resumed, or from one still
\* running when it was looked up).
C20_LookupNeverFindsFinished ==
    \A c \in Callers : Returned(c) => tasks[call[c].task].cb

\* C20 (its last clause): the done callback of a computation removes that
\* computation's own entry, never the entry of a newer computation for the
\* same key.
C20_CleanupRemovesOwnEntry ==
    [][\A t \in TaskIds :
        (~tasks[t].cb /\ tasks'[t].cb) =>
            /\ ongoing[tasks[t].key] = t
            /\ ongoing'[tasks[t].key] = 0
            /\ \A k \in Keys \ {tasks[t].key} : ongoing'[k] = ongoing[k]]_vars

====
